---------------------------- MODULE Spec2Model ----------------------------
(***************************************************************************)
(* ArchStone: the ARMv4T (A32) and Thumb-1 disassemblers.                  *)
(*                                                                         *)
(* A decode is a pure function of the instruction word.  The model keeps   *)
(* the call being made (which disassembler, the word, the case flag) and   *)
(* what came out of it: the decoder get_decoder selected, the handlers     *)
(* that were invoked, what the handler gave back and what disassemble      *)
(* gave back to its caller.                                                *)
(*                                                                         *)
(* A Python value is modelled as a record:                                 *)
(*    [kind |-> "str", text |-> <<characters>>]   a str                    *)
(*    [kind |-> "None"]                           None                     *)
(*    [kind |-> "raise", exc |-> name]            an exception propagating *)
(* Text is a sequence of one-character strings, so that formatting         *)
(* (decimal, hexadecimal, lower()) is computed and not assumed.            *)
(***************************************************************************)
EXTENDS Integers, Sequences, FiniteSets, TLC

VARIABLES pc, isa, value, lowerCaseOutput, decoder, invoked, returned, result

vars == <<pc, isa, value, lowerCaseOutput, decoder, invoked, returned, result>>

---------------------------------------------------------------------------
(* Bound of the sampled ARM input space (the Thumb space is exhaustive). *)

\* The four register fields of a sampled ARM word take the values
\* 0..MaxNibbleLow and 15.
MaxNibbleLow == 0

---------------------------------------------------------------------------
(* Python values *)

PyNone == [kind |-> "None"]

PyStr(s) == [kind |-> "str", text |-> s]

PyRaise(e) == [kind |-> "raise", exc |-> e]

\* bool(x) for the values a handler or formatter gives back
Truthy(x) == x.kind = "str" /\ x.text # <<>>

\* list[i]: an IndexError when i is out of range
ListIndex(list, i) ==
    IF i >= 0 /\ i < Len(list) THEN PyStr(list[i + 1]) ELSE PyRaise("IndexError")

RECURSIVE FmtFrom(_, _, _)
FmtFrom(parts, i, acc) ==
    IF i > Len(parts) THEN PyStr(acc)
    ELSE IF parts[i].kind = "raise" THEN parts[i]
    ELSE FmtFrom(parts, i + 1, acc \o parts[i].text)

\* An f-string: the pieces are evaluated left to right, the first exception
\* propagates, otherwise the pieces are concatenated.
Fmt(parts) == FmtFrom(parts, 1, <<>>)

Digits == <<"0", "1", "2", "3", "4", "5", "6", "7", "8", "9",
            "a", "b", "c", "d", "e", "f">>

RECURSIVE Dec(_)
\* f'{n}' for n >= 0
Dec(n) == IF n < 10 THEN <<Digits[n + 1]>> ELSE Dec(n \div 10) \o <<Digits[(n % 10) + 1]>>

RECURSIVE Hex(_)
\* f'{n:x}' for n >= 0
Hex(n) == IF n < 16 THEN <<Digits[n + 1]>> ELSE Hex(n \div 16) \o <<Digits[(n % 16) + 1]>>

UpperCase == <<"A", "B", "C", "D", "E", "F", "G", "H", "I", "J", "K", "L", "M",
               "N", "O", "P", "Q", "R", "S", "T", "U", "V", "W", "X", "Y", "Z">>

LowerCase == <<"a", "b", "c", "d", "e", "f", "g", "h", "i", "j", "k", "l", "m",
               "n", "o", "p", "q", "r", "s", "t", "u", "v", "w", "x", "y", "z">>

LowerChar(c) ==
    IF \E i \in 1..Len(UpperCase) : UpperCase[i] = c
    THEN LowerCase[CHOOSE i \in 1..Len(UpperCase) : UpperCase[i] = c]
    ELSE c

\* str.lower()
Lower(s) == [i \in 1..Len(s) |-> LowerChar(s[i])]

\* x.lower(): None has no such attribute
PyLower(x) ==
    IF x.kind = "str" THEN PyStr(Lower(x.text))
    ELSE IF x.kind = "None" THEN PyRaise("AttributeError")
    ELSE x

RECURSIVE JoinFrom(_, _, _)
JoinFrom(sep, items, i) ==
    IF i > Len(items) THEN <<>>
    ELSE IF i = Len(items) THEN items[i]
    ELSE items[i] \o sep \o JoinFrom(sep, items, i + 1)

\* sep.join(items)
Join(sep, items) == JoinFrom(sep, items, 1)

---------------------------------------------------------------------------
(* Integer bit operations (Python ints are unbounded) *)

RECURSIVE BitAndSlow(_, _)
\* a & b for a, b >= 0, bit by bit
BitAndSlow(a, b) ==
    IF a = 0 \/ b = 0 THEN 0
    ELSE (a % 2) * (b % 2) + 2 * BitAndSlow(a \div 2, b \div 2)

RECURSIVE BitOrSlow(_, _)
\* a | b for a, b >= 0, bit by bit
BitOrSlow(a, b) ==
    IF a = 0 THEN b
    ELSE IF b = 0 THEN a
    ELSE (IF a % 2 = 1 \/ b % 2 = 1 THEN 1 ELSE 0) + 2 * BitOrSlow(a \div 2, b \div 2)

\* the two operations on hexadecimal digits, tabulated once
AndTable == [a \in 0..15 |-> [b \in 0..15 |-> BitAndSlow(a, b)]]

OrTable == [a \in 0..15 |-> [b \in 0..15 |-> BitOrSlow(a, b)]]

RECURSIVE BitAnd(_, _)
\* a & b for a, b >= 0, four bits at a time
BitAnd(a, b) ==
    IF a = 0 \/ b = 0 THEN 0
    ELSE AndTable[a % 16][b % 16] + 16 * BitAnd(a \div 16, b \div 16)

RECURSIVE BitOr(_, _)
\* a | b for a, b >= 0, four bits at a time
BitOr(a, b) ==
    IF a = 0 THEN b
    ELSE IF b = 0 THEN a
    ELSE OrTable[a % 16][b % 16] + 16 * BitOr(a \div 16, b \div 16)

\* x |= ~((1 << n) - 1) for 0 <= x: every bit from n upwards becomes 1, which in
\* two's complement is the negative number (x mod 2^n) - 2^n
OrNotLowMask(x, n) == (x % (2 ^ n)) - (2 ^ n)

(* Model integers are narrower than 32 bits, so a 32-bit quantity is kept as  *)
(* its two 16-bit halves <<high, low>>: the instruction word (instr.value)   *)
(* and every result of "& 0xFFFFFFFF".                                       *)
W(high, low) == <<high, low>>

\* a & b on two 32-bit quantities
W_And(a, b) == <<BitAnd(a[1], b[1]), BitAnd(a[2], b[2])>>

\* a | b on two 32-bit quantities
W_Or(a, b) == <<BitOr(a[1], b[1]), BitOr(a[2], b[2])>>

\* x & 0xFFFFFFFF for any (possibly negative) integer x: x mod 2^32
Mask32(x) == <<(x \div 65536) % 65536, x % 65536>>

\* (x << k) & 0xFFFFFFFF for 0 <= x < 2^16 and k >= 0
ShiftLeftMask32(x, k) ==
    IF k >= 32 THEN <<0, 0>>
    ELSE IF k >= 16 THEN <<(x * (2 ^ (k - 16))) % 65536, 0>>
    ELSE Mask32(x * (2 ^ k))

\* RawArmInstruction.__init__: value & 0xFFFFFFFF, of an input given as
\* <<everything above bit 15, bits 0-15>>
RawArmInstruction(x) == <<x[1] % 65536, x[2] % 65536>>

\* RawThumbInstruction.__init__: value & 0xFFFF
RawThumbInstruction(x) == <<0, x % 65536>>

\* get_bits(start, end): (value >> start) & ((1 << (end - start + 1)) - 1)
get_bits(v, start, end) ==
    IF start >= 16 THEN (v[1] \div (2 ^ (start - 16))) % (2 ^ (end - start + 1))
    ELSE IF end < 16 THEN (v[2] \div (2 ^ start)) % (2 ^ (end - start + 1))
    ELSE (v[2] \div (2 ^ start)) + (2 ^ (16 - start)) * (v[1] % (2 ^ (end - 15)))

\* get_bit(n): (value >> n) & 1
get_bit(v, n) == IF n >= 16 THEN (v[1] \div (2 ^ (n - 16))) % 2 ELSE (v[2] \div (2 ^ n)) % 2

\* a scan that does not stop at the first match: the last matching entry wins
RECURSIVE LastMatch(_, _, _)
LastMatch(patterns, v, i) ==
    IF i > Len(patterns) THEN 0
    ELSE LET later == LastMatch(patterns, v, i + 1)
         IN  IF later # 0 THEN later
             ELSE IF W_And(v, patterns[i][1]) = patterns[i][2] THEN i
             ELSE 0

\* the for loop of get_decoder over (mask, expected_value, decoder) entries: the
\* index of the first entry with value & mask == expected_value, 0 when the loop
\* ends without one
RECURSIVE FirstMatch(_, _, _)
FirstMatch(patterns, v, i) ==
    IF i > Len(patterns) THEN 0
    ELSE IF W_And(v, patterns[i][1]) = patterns[i][2] THEN i
    ELSE FirstMatch(patterns, v, i + 1)

RECURSIVE HexPad(_, _)
\* n in hexadecimal, zero-padded to k digits
HexPad(n, k) == IF k = 0 THEN <<>> ELSE HexPad(n \div 16, k - 1) \o <<Digits[(n % 16) + 1]>>

\* f'{w:x}' for a 32-bit quantity
HexW(w) == IF w[1] = 0 THEN Hex(w[2]) ELSE Hex(w[1]) \o HexPad(w[2], 4)

\* [f'r{i}' for i in range(n) if reg_list & (1 << i)]
RECURSIVE RegistersFrom(_, _, _)
RegistersFrom(reg_list, i, n) ==
    IF i >= n THEN <<>>
    ELSE (IF BitAnd(reg_list, 2 ^ i) # 0 THEN <<(<<"r">> \o Dec(i))>> ELSE <<>>)
         \o RegistersFrom(reg_list, i + 1, n)

Registers(reg_list, n) == RegistersFrom(reg_list, 0, n)

CommaSpace == <<",", " ">>

\* f'r{n}'
Reg(n) == <<"r">> \o Dec(n)

---------------------------------------------------------------------------
(* Thumb1Disassembler *)

UNKNOWN == <<"U", "N", "K", "N", "O", "W", "N">>

\* PATTERNS of Thumb1Disassembler.get_decoder: (mask, expected_value, decoder)
Thumb1_PATTERNS ==
    << <<W(0, \hF800), W(0, \h1800), "disassemble_add_or_sub_reg">>,
       <<W(0, \hE000), W(0, \h0000), "disassemble_shift_by_imm">>,
       <<W(0, \hE000), W(0, \h2000), "disassemble_add_or_sub_or_cmp_or_mov_imm">>,
       <<W(0, \hFC00), W(0, \h4000), "disassemble_dp_reg">>,
       <<W(0, \hFC00), W(0, \h4400), "disassemble_special_dp">>,
       <<W(0, \hF800), W(0, \h4800), "disassemble_load_from_literal_pool">>,
       <<W(0, \hF000), W(0, \h5000), "disassemble_load_or_store_reg_offset">>,
       <<W(0, \hE000), W(0, \h6000), "disassemble_load_or_store_word_or_byte_imm_offset">>,
       <<W(0, \hF000), W(0, \h8000), "disassemble_load_or_store_halfword_imm_offset">>,
       <<W(0, \hF000), W(0, \h9000), "disassemble_load_or_store_to_or_from_stack">>,
       <<W(0, \hF000), W(0, \hA000), "disassemble_add_to_sp_or_pc">>,
       <<W(0, \hFF00), W(0, \hB000), "disassemble_adjust_sp">>,
       <<W(0, \hF600), W(0, \hB400), "disassemble_push_or_pop_reg_list">>,
       <<W(0, \hF000), W(0, \hC000), "disassemble_load_or_store_multiple">>,
       <<W(0, \hF000), W(0, \hD000), "disassemble_conditional_branch">>,
       <<W(0, \hFF00), W(0, \hDF00), "disassemble_software_interrupt">>,
       <<W(0, \hF800), W(0, \hE000), "disassemble_unconditional_branch">> >>

\* Thumb1Disassembler.get_decoder: the first matching entry's decoder, "None"
\* when the loop ends without a match
Thumb1_get_decoder(v) ==
    LET i == FirstMatch(Thumb1_PATTERNS, v, 1)
    IN  IF i = 0 THEN "None" ELSE Thumb1_PATTERNS[i][3]

Thumb1_disassemble_add_or_sub_reg(v) ==
    LET i == get_bit(v, 10)
        op == get_bit(v, 9)
        rm_imm == get_bits(v, 6, 8)
        rn == get_bits(v, 3, 5)
        rd == get_bits(v, 0, 2)
        mnem == IF op = 1 THEN <<"S", "U", "B">> ELSE <<"A", "D", "D">>
    IN  IF i = 1
        THEN Fmt(<<PyStr(mnem), PyStr(<<"S", " ", "r">>), PyStr(Dec(rd)), PyStr(<<",", " ", "r">>),
                   PyStr(Dec(rn)), PyStr(<<",", " ", "#">>), PyStr(Dec(rm_imm))>>)
        ELSE Fmt(<<PyStr(mnem), PyStr(<<"S", " ", "r">>), PyStr(Dec(rd)), PyStr(<<",", " ", "r">>),
                   PyStr(Dec(rn)), PyStr(<<",", " ", "r">>), PyStr(Dec(rm_imm))>>)

Thumb1_disassemble_shift_by_imm(v) ==
    LET opcode == get_bits(v, 11, 12)
        mnem == ListIndex(<<<<"L", "S", "L">>, <<"L", "S", "R">>, <<"A", "S", "R">>>>, opcode)
        imm == get_bits(v, 6, 10)
        rm == get_bits(v, 3, 5)
        rd == get_bits(v, 0, 2)
    IN  Fmt(<<mnem, PyStr(<<"S", " ", "r">>), PyStr(Dec(rd)), PyStr(<<",", " ", "r">>), PyStr(Dec(rm)),
              PyStr(<<",", " ", "#">>), PyStr(Dec(imm))>>)

Thumb1_disassemble_add_or_sub_or_cmp_or_mov_imm(v) ==
    LET opcode == get_bits(v, 11, 12)
        mnem == ListIndex(<<<<"M", "O", "V", "S">>, <<"C", "M", "P">>, <<"A", "D", "D", "S">>, <<"S", "U", "B", "S">>>>, opcode)
        rd_rn == get_bits(v, 8, 10)
        imm == get_bits(v, 0, 7)
    IN  Fmt(<<mnem, PyStr(<<" ", "r">>), PyStr(Dec(rd_rn)), PyStr(<<",", " ", "#", "0", "x">>), PyStr(Hex(imm))>>)

Thumb1_OPCODES ==
    <<<<"A", "N", "D", "S">>,
      <<"E", "O", "R", "S">>,
      <<"L", "S", "L", "S">>,
      <<"L", "S", "R", "S">>,
      <<"A", "S", "R", "S">>,
      <<"A", "D", "C", "S">>,
      <<"S", "B", "C", "S">>,
      <<"R", "O", "R", "S">>,
      <<"T", "S", "T">>,
      <<"N", "E", "G", "S">>,
      <<"C", "M", "P">>,
      <<"C", "M", "N">>,
      <<"O", "R", "R", "S">>,
      <<"M", "U", "L", "S">>,
      <<"B", "I", "C", "S">>,
      <<"M", "V", "N", "S">>>>

Thumb1_disassemble_dp_reg(v) ==
    LET op == get_bits(v, 6, 9)
        mnem == ListIndex(Thumb1_OPCODES, op)
        rm_rs == get_bits(v, 3, 5)
        rd_rn == get_bits(v, 0, 2)
    IN  Fmt(<<mnem, PyStr(<<" ", "r">>), PyStr(Dec(rd_rn)), PyStr(<<",", " ", "r">>), PyStr(Dec(rm_rs))>>)

\* special data processing with the low three bits of each register field
\* only: h1 and h2 add nothing
Thumb1_disassemble_special_dp_low(v) ==
    LET opcode == get_bits(v, 8, 9)
        mnem == ListIndex(<<<<"A", "D", "D">>, <<"C", "M", "P">>, <<"M", "O", "V">>, <<"B", "X">>>>, opcode)
        h1 == get_bit(v, 7)
        rm == get_bits(v, 3, 5)
        rd_rn == get_bits(v, 0, 2)
    IN  IF mnem = PyStr(<<"B", "X">>)
        THEN IF h1 = 1 \/ rd_rn # 0
             THEN PyNone
             ELSE Fmt(<<PyStr(<<"B", "X", " ", "r">>), PyStr(Dec(rm))>>)
        ELSE Fmt(<<mnem, PyStr(<<" ", "r">>), PyStr(Dec(rd_rn)), PyStr(<<",", " ", "r">>), PyStr(Dec(rm))>>)

Thumb1_disassemble_special_dp(v) ==
    LET opcode == get_bits(v, 8, 9)
        mnem == ListIndex(<<<<"A", "D", "D">>, <<"C", "M", "P">>, <<"M", "O", "V">>, <<"B", "X">>>>, opcode)
        h1 == get_bit(v, 7)
        h2 == get_bit(v, 6)
        rm == get_bits(v, 3, 5)
        rd_rn == get_bits(v, 0, 2)
    IN  IF mnem = PyStr(<<"B", "X">>)
        THEN IF h1 = 1 \/ rd_rn # 0
             THEN PyNone
             ELSE Fmt(<<PyStr(<<"B", "X", " ", "r">>), PyStr(Dec(IF h2 = 1 THEN rm + 8 ELSE rm))>>)
        ELSE Fmt(<<mnem, PyStr(<<" ", "r">>), PyStr(Dec(IF h1 = 1 THEN rd_rn + 8 ELSE rd_rn)),
                   PyStr(<<",", " ", "r">>), PyStr(Dec(IF h2 = 1 THEN rm + 8 ELSE rm))>>)

Thumb1_disassemble_load_from_literal_pool(v) ==
    LET rd == get_bits(v, 8, 10)
        offset == get_bits(v, 0, 7) * 4
    IN  Fmt(<<PyStr(<<"L", "D", "R", " ", "r">>), PyStr(Dec(rd)), PyStr(<<",", " ", "[", "r", "1", "5", ",", " ", "#", "0", "x">>), PyStr(Hex(offset)),
              PyStr(<<"]">>)>>)

Thumb1_disassemble_load_or_store_reg_offset(v) ==
    LET opcode == get_bits(v, 9, 11)
        mnem == ListIndex(<<<<"S", "T", "R">>, <<"S", "T", "R", "H">>, <<"S", "T", "R", "B">>, <<"L", "D", "R", "S", "B">>,
                            <<"L", "D", "R">>, <<"L", "D", "R", "H">>, <<"L", "D", "R", "B">>, <<"L", "D", "R", "S", "H">>>>, opcode)
        rm == get_bits(v, 6, 8)
        rn == get_bits(v, 3, 5)
        rd == get_bits(v, 0, 2)
    IN  Fmt(<<mnem, PyStr(<<" ", "r">>), PyStr(Dec(rd)), PyStr(<<",", " ", "[", "r">>), PyStr(Dec(rn)),
              PyStr(<<",", " ", "r">>), PyStr(Dec(rm)), PyStr(<<"]">>)>>)

Thumb1_disassemble_load_or_store_word_or_byte_imm_offset(v) ==
    LET b == get_bit(v, 12)
        l == get_bit(v, 11)
        imm == get_bits(v, 6, 10) * (IF b = 1 THEN 1 ELSE 4)
        rn == get_bits(v, 3, 5)
        rd == get_bits(v, 0, 2)
    IN  Fmt(<<PyStr(IF l = 1 THEN <<"L", "D", "R">> ELSE <<"S", "T", "R">>), PyStr(IF b = 1 THEN <<"B">> ELSE <<>>),
              PyStr(<<" ", "r">>), PyStr(Dec(rd)), PyStr(<<",", " ", "[", "r">>), PyStr(Dec(rn)),
              PyStr(<<",", " ", "#", "0", "x">>), PyStr(Hex(imm)), PyStr(<<"]">>)>>)

Thumb1_disassemble_load_or_store_halfword_imm_offset(v) ==
    LET l == get_bit(v, 11)
        imm == get_bits(v, 6, 10) * 2
        rn == get_bits(v, 3, 5)
        rd == get_bits(v, 0, 2)
    IN  Fmt(<<PyStr(IF l = 1 THEN <<"L", "D", "R">> ELSE <<"S", "T", "R">>), PyStr(<<"H", " ", "r">>), PyStr(Dec(rd)),
              PyStr(<<",", " ", "[", "r">>), PyStr(Dec(rn)), PyStr(<<",", " ", "#", "0", "x">>), PyStr(Hex(imm)),
              PyStr(<<"]">>)>>)

Thumb1_disassemble_load_or_store_to_or_from_stack(v) ==
    LET l == get_bit(v, 11)
        rd == get_bits(v, 8, 10)
        offset == get_bits(v, 0, 7) * 4
    IN  Fmt(<<PyStr(IF l = 1 THEN <<"L", "D", "R">> ELSE <<"S", "T", "R">>), PyStr(<<" ", "r">>), PyStr(Dec(rd)),
              PyStr(<<",", " ", "[", "r", "1", "3", ",", " ", "#", "0", "x">>), PyStr(Hex(offset)), PyStr(<<"]">>)>>)

Thumb1_disassemble_add_to_sp_or_pc(v) ==
    LET sp == get_bit(v, 11)
        rd == get_bits(v, 8, 10)
        imm == get_bits(v, 0, 7) * 4
    IN  Fmt(<<PyStr(<<"A", "D", "D", " ", "r">>), PyStr(Dec(rd)), PyStr(<<",", " ">>),
              PyStr(IF sp = 1 THEN <<"r", "1", "3">> ELSE <<"r", "1", "5">>), PyStr(<<",", " ", "#", "0", "x">>), PyStr(Hex(imm))>>)

Thumb1_disassemble_adjust_sp(v) ==
    LET op == get_bit(v, 7)
        imm == get_bits(v, 0, 6) * 4
    IN  Fmt(<<PyStr(IF op = 1 THEN <<"S", "U", "B">> ELSE <<"A", "D", "D">>), PyStr(<<" ", "r", "1", "3", ",", " ", "#", "0", "x">>),
              PyStr(Hex(imm))>>)

Thumb1_disassemble_push_or_pop_reg_list(v) ==
    LET l == get_bit(v, 11)
        r == get_bit(v, 8)
        reg_list == get_bits(v, 0, 7)
        registers == Registers(reg_list, 8)
                     \o (IF r = 1 THEN <<(IF l = 1 THEN <<"r", "1", "5">> ELSE <<"r", "1", "4">>)>> ELSE <<>>)
    IN  IF ~(r = 1 \/ reg_list # 0)
        THEN PyNone
        ELSE Fmt(<<PyStr(IF l = 1 THEN <<"P", "O", "P">> ELSE <<"P", "U", "S", "H">>), PyStr(<<" ", "{">>),
                   PyStr(Join(CommaSpace, registers)), PyStr(<<"}">>)>>)

Thumb1_disassemble_load_or_store_multiple(v) ==
    LET l == get_bit(v, 11)
        rn == get_bits(v, 8, 10)
        reg_list == get_bits(v, 0, 7)
        registers == Registers(reg_list, 8)
    IN  IF reg_list = 0
        THEN PyNone
        ELSE Fmt(<<PyStr(IF l = 1 THEN <<"L", "D", "M">> ELSE <<"S", "T", "M">>), PyStr(<<"I", "A", " ", "r">>), PyStr(Dec(rn)),
                   PyStr(<<"!", ",", " ", "{">>), PyStr(Join(CommaSpace, registers)), PyStr(<<"}">>)>>)

\* CONDITION_CODES, the local list of disassemble_conditional_branch
Thumb1_CONDITION_CODES ==
    <<<<"E", "Q">>,
      <<"N", "E">>,
      <<"C", "S">>,
      <<"C", "C">>,
      <<"M", "I">>,
      <<"P", "L">>,
      <<"V", "S">>,
      <<"V", "C">>,
      <<"H", "I">>,
      <<"L", "S">>,
      <<"G", "E">>,
      <<"L", "T">>,
      <<"G", "T">>,
      <<"L", "E">>,
      <<"A", "L">>,
      <<"N", "V">>>>

\* the target without the sign extension of the offset
Thumb1_conditional_branch_target_unsigned(v) == Mask32(get_bits(v, 0, 7) * 2 + 4)

\* bits 0-7 shifted left by 1, sign-extended from bit 8, plus 4, wrapped to 32 bits
Thumb1_conditional_branch_target(v) ==
    LET imm == get_bits(v, 0, 7) * 2
        ext == IF BitAnd(imm, 2 ^ 8) # 0 THEN OrNotLowMask(imm, 9) ELSE imm
    IN  Mask32(ext + 4)

Thumb1_disassemble_conditional_branch(v) ==
    LET cond_code == ListIndex(Thumb1_CONDITION_CODES, get_bits(v, 8, 11))
        cond == IF cond_code = PyStr(<<"A", "L">>) THEN PyStr(<<>>) ELSE cond_code
        imm == Thumb1_conditional_branch_target(v)
    IN  Fmt(<<PyStr(<<"B">>), cond, PyStr(<<" ", "#", "0", "x">>), PyStr(HexW(imm))>>)

Thumb1_disassemble_software_interrupt(v) ==
    LET imm == get_bits(v, 0, 7)
    IN  Fmt(<<PyStr(<<"S", "W", "I", " ", "0", "x">>), PyStr(Hex(imm))>>)

\* bits 0-10 shifted left by 1, sign-extended from bit 11, plus 4, wrapped to 32 bits
Thumb1_unconditional_branch_target(v) ==
    LET imm == get_bits(v, 0, 10) * 2
        ext == IF BitAnd(imm, 2 ^ 11) # 0 THEN OrNotLowMask(imm, 12) ELSE imm
    IN  Mask32(ext + 4)

Thumb1_disassemble_unconditional_branch(v) ==
    LET imm == Thumb1_unconditional_branch_target(v)
    IN  Fmt(<<PyStr(<<"B", " ", "0", "x">>), PyStr(HexW(imm))>>)

\* decoder(instr): the call of the bound method get_decoder returned
Thumb1_call(d, v) ==
    CASE d = "disassemble_add_or_sub_reg" -> Thumb1_disassemble_add_or_sub_reg(v)
      [] d = "disassemble_shift_by_imm" -> Thumb1_disassemble_shift_by_imm(v)
      [] d = "disassemble_add_or_sub_or_cmp_or_mov_imm" ->
             Thumb1_disassemble_add_or_sub_or_cmp_or_mov_imm(v)
      [] d = "disassemble_dp_reg" -> Thumb1_disassemble_dp_reg(v)
      [] d = "disassemble_special_dp" -> Thumb1_disassemble_special_dp(v)
      [] d = "disassemble_load_from_literal_pool" ->
             Thumb1_disassemble_load_from_literal_pool(v)
      [] d = "disassemble_load_or_store_reg_offset" ->
             Thumb1_disassemble_load_or_store_reg_offset(v)
      [] d = "disassemble_load_or_store_word_or_byte_imm_offset" ->
             Thumb1_disassemble_load_or_store_word_or_byte_imm_offset(v)
      [] d = "disassemble_load_or_store_halfword_imm_offset" ->
             Thumb1_disassemble_load_or_store_halfword_imm_offset(v)
      [] d = "disassemble_load_or_store_to_or_from_stack" ->
             Thumb1_disassemble_load_or_store_to_or_from_stack(v)
      [] d = "disassemble_add_to_sp_or_pc" -> Thumb1_disassemble_add_to_sp_or_pc(v)
      [] d = "disassemble_adjust_sp" -> Thumb1_disassemble_adjust_sp(v)
      [] d = "disassemble_push_or_pop_reg_list" ->
             Thumb1_disassemble_push_or_pop_reg_list(v)
      [] d = "disassemble_load_or_store_multiple" ->
             Thumb1_disassemble_load_or_store_multiple(v)
      [] d = "disassemble_conditional_branch" -> Thumb1_disassemble_conditional_branch(v)
      [] d = "disassemble_software_interrupt" -> Thumb1_disassemble_software_interrupt(v)
      [] d = "disassemble_unconditional_branch" ->
             Thumb1_disassemble_unconditional_branch(v)

\* the handlers disassemble invokes: decoder(instr) if decoder else None
Thumb1_invoked(d) == IF d = "None" THEN <<>> ELSE <<d>>

\* what decoder(instr) if decoder else None evaluates to
Thumb1_returned(d, v) == IF d = "None" THEN PyNone ELSE Thumb1_call(d, v)

\* the handler's value handed on as it is, without the sentinel
OrUnknown_missing(x) == x

\* x or 'UNKNOWN'
OrUnknown(x) ==
    IF x.kind = "raise" THEN x ELSE IF Truthy(x) THEN x ELSE PyStr(UNKNOWN)

\* Thumb1Disassembler.disassemble
Thumb1_disassemble(v) == OrUnknown(Thumb1_returned(Thumb1_get_decoder(v), v))

---------------------------------------------------------------------------
(* Armv4TDisassembler *)

\* PATTERNS of Armv4TDisassembler.get_decoder: (mask, expected_value, decoder)
Armv4T_PATTERNS ==
    << <<W(\h0F00, \h0000), W(\h0F00, \h0000), "disassemble_software_interrupt">>,
       <<W(\h0FFF, \hFFF0), W(\h012F, \hFF10), "disassemble_branch_exchange">>,
       <<W(\h0E00, \h0000), W(\h0A00, \h0000), "disassemble_branch_and_branch_with_link">>,
       <<W(\h0F00, \h0010), W(\h0E00, \h0010), "disassemble_coprocessor_register_transfer">>,
       <<W(\h0F00, \h0010), W(\h0E00, \h0000), "disassemble_coprocessor_data_processing">>,
       <<W(\h0E00, \h0000), W(\h0C00, \h0000), "disassemble_coprocessor_load_and_store">>,
       <<W(\h0E00, \h0000), W(\h0800, \h0000), "disassemble_load_or_store_multiple">>,
       <<W(\h0C00, \h0000), W(\h0400, \h0000), "disassemble_load_or_store">>,
       <<W(\h0FC0, \h00F0), W(\h0000, \h0090), "disassemble_multiply">>,
       <<W(\h0F80, \h00F0), W(\h0080, \h0090), "disassemble_multiply_long">>,
       <<W(\h0FB0, \h00F0), W(\h0100, \h0090), "disassemble_swap">>,
       <<W(\h0D90, \h0000), W(\h0100, \h0000), "disassemble_move_from_or_to_status_reg">>,
       <<W(\h0E00, \h0090), W(\h0000, \h0090), "disassemble_load_or_store_halfword_or_signed_byte">>,
       <<W(\h0C00, \h0000), W(\h0000, \h0000), "disassemble_data_processing">> >>

\* Armv4TDisassembler.get_decoder: the first matching entry's decoder, "None"
\* when the loop ends without a match
Armv4T_get_decoder(v) ==
    LET i == FirstMatch(Armv4T_PATTERNS, v, 1)
    IN  IF i = 0 THEN "None" ELSE Armv4T_PATTERNS[i][3]

\* CONDITION_CODES, the local list of Armv4TDisassembler.get_cond
Armv4T_CONDITION_CODES ==
    <<<<"E", "Q">>, <<"N", "E">>, <<"C", "S">>, <<"C", "C">>, <<"M", "I">>, <<"P", "L">>, <<"V", "S">>, <<"V", "C">>,
      <<"H", "I">>, <<"L", "S">>, <<"G", "E">>, <<"L", "T">>, <<"G", "T">>, <<"L", "E">>, <<"A", "L">>, <<"N", "V">>>>

\* The attributes of an Armv4TDisassembler object that hold data: the class
\* defines methods only and no __init__, so there are none.
Armv4T_attributes == {}

\* self.<name>
Armv4T_getattr(name) ==
    IF name \in Armv4T_attributes THEN PyStr(<<>>) ELSE PyRaise("AttributeError")

\* Armv4TDisassembler.get_cond: the table is looked up on self, where it is
\* not; the local list of the same name is never read.
Armv4T_get_cond(v) ==
    LET table == Armv4T_getattr("CONDITION_CODES")
        cond_code == IF table.kind = "raise" THEN table
                     ELSE ListIndex(Armv4T_CONDITION_CODES, get_bits(v, 28, 31))
    IN  IF cond_code = PyStr(<<"A", "L">>) THEN PyStr(<<>>) ELSE cond_code

SHIFT_NAMES == <<<<"L", "S", "L">>, <<"L", "S", "R">>, <<"A", "S", "R">>, <<"R", "O", "R">>>>

\* ((imm >> rot) | (imm << (32 - rot))) & 0xFFFFFFFF
RotateRight32(imm, rot) ==
    W_Or(Mask32(imm \div (2 ^ rot)), ShiftLeftMask32(imm, 32 - rot))

\* Armv4TDisassembler.format_addressing_mode1
Armv4T_format_addressing_mode1(v) ==
    LET i == get_bit(v, 25)
        shift_imm == get_bits(v, 7, 11)
        shift == get_bits(v, 5, 6)
        shift_name == SHIFT_NAMES[shift + 1]
        rm == get_bits(v, 0, 3)
    IN  IF i = 1
        THEN PyStr(<<"#", "0", "x">> \o HexW(RotateRight32(get_bits(v, 0, 7), get_bits(v, 8, 11) * 2)))
        ELSE IF shift_name = <<"L", "S", "L">> /\ shift_imm = 0
        THEN PyStr(Reg(rm))
        ELSE IF shift_name = <<"R", "O", "R">> /\ shift_imm = 0
        THEN PyStr(Reg(rm) \o <<",", " ", "R", "R", "X">>)
        ELSE IF get_bit(v, 4) = 1
        THEN IF get_bit(v, 7) = 1
             THEN PyNone
             ELSE PyStr(Reg(rm) \o CommaSpace \o shift_name \o <<" ">> \o Reg(get_bits(v, 8, 11)))
        ELSE PyStr(Reg(rm) \o CommaSpace \o shift_name \o <<" ", "#">> \o Dec(shift_imm))

\* '!' if w else ''
Bang(w) == IF w = 1 THEN <<"!">> ELSE <<>>

\* '' if u else '-'
Sign(u) == IF u = 1 THEN <<>> ELSE <<"-">>

\* Armv4TDisassembler.format_addressing_mode2
Armv4T_format_addressing_mode2(v) ==
    LET i == get_bit(v, 25)
        p == get_bit(v, 24)
        u == get_bit(v, 23)
        w == get_bit(v, 21)
        rn == get_bits(v, 16, 19)
        sign == Sign(u)
        offset == get_bits(v, 0, 11)
        shift_imm == get_bits(v, 7, 11)
        shift == get_bits(v, 5, 6)
        rm == get_bits(v, 0, 3)
        shift_name == SHIFT_NAMES[shift + 1]
    IN  IF i = 0
        THEN IF p = 1
             THEN PyStr(<<"[">> \o Reg(rn) \o <<",", " ", "#">> \o sign \o <<"0", "x">> \o Hex(offset) \o <<"]">>
                        \o Bang(w))
             ELSE PyStr(<<"[">> \o Reg(rn) \o <<"]", ",", " ", "#">> \o sign \o <<"0", "x">> \o Hex(offset))
        ELSE IF get_bit(v, 4) = 1
        THEN PyNone
        ELSE IF shift_name = <<"L", "S", "L">> /\ shift_imm = 0
        THEN IF p = 1
             THEN PyStr(<<"[">> \o Reg(rn) \o CommaSpace \o sign \o Reg(rm) \o <<"]">> \o Bang(w))
             ELSE PyStr(<<"[">> \o Reg(rn) \o <<"]", ",", " ">> \o sign \o Reg(rm))
        ELSE IF shift_name = <<"R", "O", "R">> /\ shift_imm = 0
        THEN IF p = 1
             THEN PyStr(<<"[">> \o Reg(rn) \o CommaSpace \o sign \o Reg(rm) \o <<",", " ", "R", "R", "X", "]">>
                        \o Bang(w))
             ELSE PyStr(<<"[">> \o Reg(rn) \o <<"]", ",", " ">> \o sign \o Reg(rm) \o <<",", " ", "R", "R", "X">>)
        ELSE IF p = 1
             THEN PyStr(<<"[">> \o Reg(rn) \o CommaSpace \o sign \o Reg(rm) \o CommaSpace
                        \o shift_name \o <<" ", "#">> \o Dec(shift_imm) \o <<"]">> \o Bang(w))
             ELSE PyStr(<<"[">> \o Reg(rn) \o <<"]", ",", " ">> \o sign \o Reg(rm) \o CommaSpace
                        \o shift_name \o <<" ", "#">> \o Dec(shift_imm))

\* Mode 3 with the post-indexed branch taken whatever W is: P = 0 with W = 1
\* is formatted as a post-indexed address
Armv4T_format_addressing_mode3_any_writeback(v) ==
    LET p == get_bit(v, 24)
        u == get_bit(v, 23)
        i == get_bit(v, 22)
        w == get_bit(v, 21)
        rn == get_bits(v, 16, 19)
        sign == Sign(u)
        imm == BitOr(get_bits(v, 8, 11) * 16, get_bits(v, 0, 3))
        rm == get_bits(v, 0, 3)
    IN  IF i = 1
        THEN IF p = 1
             THEN PyStr(<<"[">> \o Reg(rn) \o <<",", " ", "#">> \o sign \o <<"0", "x">> \o Hex(imm) \o <<"]">>
                        \o Bang(w))
             ELSE PyStr(<<"[">> \o Reg(rn) \o <<"]", ",", " ", "#">> \o sign \o <<"0", "x">> \o Hex(imm))
        ELSE IF get_bits(v, 8, 11) # 0
        THEN PyNone
        ELSE IF p = 1
        THEN PyStr(<<"[">> \o Reg(rn) \o CommaSpace \o sign \o Reg(rm) \o <<"]">> \o Bang(w))
        ELSE PyStr(<<"[">> \o Reg(rn) \o <<"]", ",", " ">> \o sign \o Reg(rm))

\* Armv4TDisassembler.format_addressing_mode3
Armv4T_format_addressing_mode3(v) ==
    LET p == get_bit(v, 24)
        u == get_bit(v, 23)
        i == get_bit(v, 22)
        w == get_bit(v, 21)
        rn == get_bits(v, 16, 19)
        sign == Sign(u)
        imm_high == get_bits(v, 8, 11)
        imm_low == get_bits(v, 0, 3)
        imm == BitOr(imm_high * 16, imm_low)
        rm == get_bits(v, 0, 3)
    IN  IF i = 1
        THEN IF p = 1
             THEN PyStr(<<"[">> \o Reg(rn) \o <<",", " ", "#">> \o sign \o <<"0", "x">> \o Hex(imm) \o <<"]">>
                        \o Bang(w))
             ELSE IF w = 0
             THEN PyStr(<<"[">> \o Reg(rn) \o <<"]", ",", " ", "#">> \o sign \o <<"0", "x">> \o Hex(imm))
             ELSE PyNone
        ELSE IF get_bits(v, 8, 11) # 0
        THEN PyNone
        ELSE IF p = 1
        THEN PyStr(<<"[">> \o Reg(rn) \o CommaSpace \o sign \o Reg(rm) \o <<"]">> \o Bang(w))
        ELSE IF w = 0
        THEN PyStr(<<"[">> \o Reg(rn) \o <<"]", ",", " ">> \o sign \o Reg(rm))
        ELSE PyNone

\* Armv4TDisassembler.format_addressing_mode4
Armv4T_format_addressing_mode4(v) ==
    LET p == get_bit(v, 24)
        u == get_bit(v, 23)
    IN  ListIndex(<<<<"D", "A">>, <<"I", "A">>, <<"D", "B">>, <<"I", "B">>>>, BitOr(p * 2, u))

\* Armv4TDisassembler.format_addressing_mode5
Armv4T_format_addressing_mode5(v) ==
    LET p == get_bit(v, 24)
        u == get_bit(v, 23)
        w == get_bit(v, 21)
        rn == get_bits(v, 16, 19)
        offset == get_bits(v, 0, 7) * 4
        sign == Sign(u)
    IN  IF p = 1
        THEN PyStr(<<"[">> \o Reg(rn) \o <<",", " ", "#">> \o sign \o <<"0", "x">> \o Hex(offset) \o <<"]">>
                   \o Bang(w))
        ELSE IF w = 0
        THEN PyStr(<<"[">> \o Reg(rn) \o <<"]", ",", " ", "#">> \o sign \o <<"0", "x">> \o Hex(offset))
        ELSE PyNone

\* 'S' if s else ''
SFlag(s) == IF s = 1 THEN <<"S">> ELSE <<>>

Armv4T_disassemble_software_interrupt(v) ==
    LET swi_number == get_bits(v, 0, 23)
    IN  Fmt(<<PyStr(<<"S", "W", "I">>), Armv4T_get_cond(v), PyStr(<<" ", "#", "0", "x">>), PyStr(Hex(swi_number))>>)

Armv4T_disassemble_branch_exchange(v) ==
    LET rm == get_bits(v, 0, 3)
    IN  IF get_bits(v, 8, 19) # \hFFF
        THEN PyNone
        ELSE Fmt(<<PyStr(<<"B", "X">>), Armv4T_get_cond(v), PyStr(<<" ">>), PyStr(Reg(rm))>>)

\* bits 0-23 shifted left by 2, sign-extended from bit 25, plus 8, wrapped to 32 bits
Armv4T_branch_target(v) ==
    LET offset == get_bits(v, 0, 23) * 4
        ext == IF BitAnd(offset, 2 ^ 25) # 0 THEN OrNotLowMask(offset, 26) ELSE offset
    IN  Mask32(ext + 8)

Armv4T_disassemble_branch_and_branch_with_link(v) ==
    LET l == get_bit(v, 24)
        offset == Armv4T_branch_target(v)
    IN  Fmt(<<PyStr(IF l = 1 THEN <<"B", "L">> ELSE <<"B">>), Armv4T_get_cond(v), PyStr(<<" ", "#", "0", "x">>),
              PyStr(HexW(offset))>>)

Armv4T_disassemble_coprocessor_register_transfer(v) ==
    LET op1 == get_bits(v, 21, 23)
        l == get_bit(v, 20)
        crn == get_bits(v, 16, 19)
        rd == get_bits(v, 12, 15)
        cp_num == get_bits(v, 8, 11)
        op2 == get_bits(v, 5, 7)
        crm == get_bits(v, 0, 3)
    IN  Fmt(<<PyStr(IF l = 1 THEN <<"M", "R", "C">> ELSE <<"M", "C", "R">>), Armv4T_get_cond(v),
              PyStr(<<" ", "p">> \o Dec(cp_num) \o <<",", " ", "#">> \o Dec(op1) \o <<",", " ", "r">> \o Dec(rd)
                    \o <<",", " ", "c">> \o Dec(crn) \o <<",", " ", "c">> \o Dec(crm) \o <<",", " ", "#">> \o Dec(op2))>>)

Armv4T_disassemble_coprocessor_data_processing(v) ==
    LET op1 == get_bits(v, 20, 23)
        crn == get_bits(v, 16, 19)
        crd == get_bits(v, 12, 15)
        cp_num == get_bits(v, 8, 11)
        op2 == get_bits(v, 5, 7)
        crm == get_bits(v, 0, 3)
    IN  Fmt(<<PyStr(<<"C", "D", "P">>), Armv4T_get_cond(v),
              PyStr(<<" ", "p">> \o Dec(cp_num) \o <<",", " ", "#">> \o Dec(op1) \o <<",", " ", "c">> \o Dec(crd)
                    \o <<",", " ", "c">> \o Dec(crn) \o <<",", " ", "c">> \o Dec(crm) \o <<",", " ", "#">> \o Dec(op2))>>)

Armv4T_disassemble_coprocessor_load_and_store(v) ==
    LET l == get_bit(v, 20)
        crd == get_bits(v, 12, 15)
        cp_num == get_bits(v, 8, 11)
        addressing_mode == Armv4T_format_addressing_mode5(v)
    IN  IF ~Truthy(addressing_mode)
        THEN PyNone
        ELSE Fmt(<<PyStr(IF l = 1 THEN <<"L", "D", "C">> ELSE <<"S", "T", "C">>), Armv4T_get_cond(v),
                   PyStr(<<" ", "p">> \o Dec(cp_num) \o <<",", " ", "c">> \o Dec(crd) \o CommaSpace),
                   addressing_mode>>)

Armv4T_disassemble_load_or_store_multiple(v) ==
    LET s == get_bit(v, 22)
        w == get_bit(v, 21)
        l == get_bit(v, 20)
        reg_list == get_bits(v, 0, 15)
        rn == get_bits(v, 16, 19)
        addressing_mode == Armv4T_format_addressing_mode4(v)
        registers == Registers(reg_list, 16)
    IN  IF (s = 1 /\ w = 1) \/ reg_list = 0 \/ rn = 15
        THEN PyNone
        ELSE Fmt(<<PyStr(IF l = 1 THEN <<"L", "D", "M">> ELSE <<"S", "T", "M">>), addressing_mode,
                   Armv4T_get_cond(v),
                   PyStr(<<" ">> \o Reg(rn) \o Bang(w) \o <<",", " ", "{">> \o Join(CommaSpace, registers)
                         \o <<"}">> \o (IF s = 1 THEN <<" ", "^">> ELSE <<>>))>>)

Armv4T_disassemble_load_or_store(v) ==
    LET p == get_bit(v, 24)
        b == get_bit(v, 22)
        w == get_bit(v, 21)
        l == get_bit(v, 20)
        rd == get_bits(v, 12, 15)
        addressing_mode == Armv4T_format_addressing_mode2(v)
    IN  IF ~Truthy(addressing_mode)
        THEN PyNone
        ELSE Fmt(<<PyStr((IF l = 1 THEN <<"L", "D", "R">> ELSE <<"S", "T", "R">>)
                         \o (IF b = 1 THEN <<"B">> ELSE <<>>)
                         \o (IF p = 0 /\ w = 1 THEN <<"T">> ELSE <<>>)),
                   Armv4T_get_cond(v), PyStr(<<" ">> \o Reg(rd) \o CommaSpace),
                   addressing_mode>>)

Armv4T_disassemble_multiply(v) ==
    LET a == get_bit(v, 21)
        s == get_bit(v, 20)
        rd == get_bits(v, 16, 19)
        rs == get_bits(v, 8, 11)
        rm == get_bits(v, 0, 3)
        rn == get_bits(v, 12, 15)
    IN  IF a = 1
        THEN Fmt(<<PyStr(<<"M", "L", "A">> \o SFlag(s)), Armv4T_get_cond(v),
                   PyStr(<<" ">> \o Reg(rd) \o CommaSpace \o Reg(rm) \o CommaSpace \o Reg(rs)
                         \o CommaSpace \o Reg(rn))>>)
        ELSE IF get_bits(v, 12, 15) # 0
        THEN PyNone
        ELSE Fmt(<<PyStr(<<"M", "U", "L">> \o SFlag(s)), Armv4T_get_cond(v),
                   PyStr(<<" ">> \o Reg(rd) \o CommaSpace \o Reg(rm) \o CommaSpace \o Reg(rs))>>)

Armv4T_disassemble_multiply_long(v) ==
    LET u == get_bit(v, 22)
        a == get_bit(v, 21)
        s == get_bit(v, 20)
        rdhi == get_bits(v, 16, 19)
        rdlo == get_bits(v, 12, 15)
        rs == get_bits(v, 8, 11)
        rm == get_bits(v, 0, 3)
        operands == <<" ">> \o Reg(rdlo) \o CommaSpace \o Reg(rdhi) \o CommaSpace \o Reg(rm)
                    \o CommaSpace \o Reg(rs)
    IN  IF u = 1
        THEN Fmt(<<PyStr((IF a = 1 THEN <<"S", "M", "L", "A", "L">> ELSE <<"S", "M", "U", "L", "L">>) \o SFlag(s)),
                   Armv4T_get_cond(v), PyStr(operands)>>)
        ELSE Fmt(<<PyStr((IF a = 1 THEN <<"U", "M", "L", "A", "L">> ELSE <<"U", "M", "U", "L", "L">>) \o SFlag(s)),
                   Armv4T_get_cond(v), PyStr(operands)>>)

Armv4T_disassemble_swap(v) ==
    LET b == get_bit(v, 22)
        rn == get_bits(v, 16, 19)
        rd == get_bits(v, 12, 15)
        rm == get_bits(v, 0, 3)
    IN  IF get_bits(v, 8, 11) # 0 \/ get_bits(v, 20, 21) # 0
        THEN PyNone
        ELSE Fmt(<<PyStr(<<"S", "W", "P">> \o (IF b = 1 THEN <<"B">> ELSE <<>>)), Armv4T_get_cond(v),
                   PyStr(<<" ">> \o Reg(rd) \o CommaSpace \o Reg(rm) \o <<",", " ", "[">> \o Reg(rn)
                         \o <<"]">>)>>)

\* the fields string MSR builds from field_mask: f, s, x, c for bits 3, 2, 1, 0
Armv4T_msr_fields(field_mask) ==
    (IF BitAnd(field_mask, 8) # 0 THEN <<"f">> ELSE <<>>)
    \o (IF BitAnd(field_mask, 4) # 0 THEN <<"s">> ELSE <<>>)
    \o (IF BitAnd(field_mask, 2) # 0 THEN <<"x">> ELSE <<>>)
    \o (IF BitAnd(field_mask, 1) # 0 THEN <<"c">> ELSE <<>>)

\* the immediate form of MSR: bits 4-11 are required to be zero
Armv4T_msr_immediate_rejects(v) == get_bits(v, 4, 11) # 0

Armv4T_disassemble_move_from_or_to_status_reg(v) ==
    LET r == get_bit(v, 22)
        psr == IF r = 1 THEN <<"S", "P", "S", "R">> ELSE <<"C", "P", "S", "R">>
        rd == get_bits(v, 12, 15)
        i == get_bit(v, 25)
        field_mask == get_bits(v, 16, 19)
        fields == Armv4T_msr_fields(field_mask)
        rot == get_bits(v, 8, 11) * 2
        imm == get_bits(v, 0, 7)
        rotated_imm == RotateRight32(imm, rot)
        rm == get_bits(v, 0, 3)
    IN  IF get_bit(v, 21) = 0
        THEN IF get_bits(v, 0, 11) # 0 \/ get_bits(v, 16, 19) # \hF
             THEN PyNone
             ELSE Fmt(<<PyStr(<<"M", "R", "S">>), Armv4T_get_cond(v),
                        PyStr(<<" ">> \o Reg(rd) \o CommaSpace \o psr)>>)
        ELSE IF get_bits(v, 12, 15) # \hF
        THEN PyNone
        ELSE IF field_mask = 0
        THEN PyNone
        ELSE IF i = 1
        THEN IF Armv4T_msr_immediate_rejects(v)
             THEN PyNone
             ELSE Fmt(<<PyStr(<<"M", "S", "R">>), Armv4T_get_cond(v),
                        PyStr(<<" ">> \o psr \o <<"_">> \o fields \o <<",", " ", "#", "0", "x">> \o HexW(rotated_imm))>>)
        ELSE Fmt(<<PyStr(<<"M", "S", "R">>), Armv4T_get_cond(v),
                   PyStr(<<" ">> \o psr \o <<"_">> \o fields \o CommaSpace \o Reg(rm))>>)

Armv4T_disassemble_load_or_store_halfword_or_signed_byte(v) ==
    LET l == get_bit(v, 20)
        s == get_bit(v, 6)
        h == get_bit(v, 5)
        rd == get_bits(v, 12, 15)
        addressing_mode == Armv4T_format_addressing_mode3(v)
    IN  IF ~(s = 1 \/ h = 1) \/ ~Truthy(addressing_mode)
        THEN PyNone
        ELSE IF l = 1
        THEN Fmt(<<PyStr(<<"L", "D", "R">>), ListIndex(<<<<>>, <<"H">>, <<"S", "B">>, <<"S", "H">>>>, BitOr(s * 2, h)),
                   Armv4T_get_cond(v), PyStr(<<" ">> \o Reg(rd) \o CommaSpace), addressing_mode>>)
        ELSE IF get_bits(v, 5, 6) # 1
        THEN PyNone
        ELSE Fmt(<<PyStr(<<"S", "T", "R", "H">>), Armv4T_get_cond(v), PyStr(<<" ">> \o Reg(rd) \o CommaSpace),
                   addressing_mode>>)

\* OPCODES of disassemble_data_processing
Armv4T_OPCODES ==
    <<<<"A", "N", "D">>, <<"E", "O", "R">>, <<"S", "U", "B">>, <<"R", "S", "B">>, <<"A", "D", "D">>, <<"A", "D", "C">>, <<"S", "B", "C">>, <<"R", "S", "C">>,
      <<"T", "S", "T">>, <<"T", "E", "Q">>, <<"C", "M", "P">>, <<"C", "M", "N">>, <<"O", "R", "R">>, <<"M", "O", "V">>, <<"B", "I", "C">>, <<"M", "V", "N">>>>

Armv4T_disassemble_data_processing(v) ==
    LET s == get_bit(v, 20)
        opcode == get_bits(v, 21, 24)
        mnem == Armv4T_OPCODES[opcode + 1]
        rn == get_bits(v, 16, 19)
        rd == get_bits(v, 12, 15)
        op2 == Armv4T_format_addressing_mode1(v)
    IN  IF ~Truthy(op2)
        THEN PyNone
        ELSE IF mnem \in {<<"M", "O", "V">>, <<"M", "V", "N">>}
        THEN Fmt(<<PyStr(mnem \o SFlag(s)), Armv4T_get_cond(v),
                   PyStr(<<" ">> \o Reg(rd) \o CommaSpace), op2>>)
        ELSE IF mnem \in {<<"T", "S", "T">>, <<"T", "E", "Q">>, <<"C", "M", "P">>, <<"C", "M", "N">>}
        THEN Fmt(<<PyStr(mnem), Armv4T_get_cond(v), PyStr(<<" ">> \o Reg(rn) \o CommaSpace), op2>>)
        ELSE Fmt(<<PyStr(mnem \o SFlag(s)), Armv4T_get_cond(v),
                   PyStr(<<" ">> \o Reg(rd) \o CommaSpace \o Reg(rn) \o CommaSpace), op2>>)

\* decoder(instr): the call of the bound method get_decoder returned
Armv4T_call(d, v) ==
    CASE d = "disassemble_software_interrupt" -> Armv4T_disassemble_software_interrupt(v)
      [] d = "disassemble_branch_exchange" -> Armv4T_disassemble_branch_exchange(v)
      [] d = "disassemble_branch_and_branch_with_link" ->
             Armv4T_disassemble_branch_and_branch_with_link(v)
      [] d = "disassemble_coprocessor_register_transfer" ->
             Armv4T_disassemble_coprocessor_register_transfer(v)
      [] d = "disassemble_coprocessor_data_processing" ->
             Armv4T_disassemble_coprocessor_data_processing(v)
      [] d = "disassemble_coprocessor_load_and_store" ->
             Armv4T_disassemble_coprocessor_load_and_store(v)
      [] d = "disassemble_load_or_store_multiple" ->
             Armv4T_disassemble_load_or_store_multiple(v)
      [] d = "disassemble_load_or_store" -> Armv4T_disassemble_load_or_store(v)
      [] d = "disassemble_multiply" -> Armv4T_disassemble_multiply(v)
      [] d = "disassemble_multiply_long" -> Armv4T_disassemble_multiply_long(v)
      [] d = "disassemble_swap" -> Armv4T_disassemble_swap(v)
      [] d = "disassemble_move_from_or_to_status_reg" ->
             Armv4T_disassemble_move_from_or_to_status_reg(v)
      [] d = "disassemble_load_or_store_halfword_or_signed_byte" ->
             Armv4T_disassemble_load_or_store_halfword_or_signed_byte(v)
      [] d = "disassemble_data_processing" -> Armv4T_disassemble_data_processing(v)

\* the handlers disassemble invokes: only when decoder is not None
Armv4T_invoked(d) == IF d = "None" THEN <<>> ELSE <<d>>

\* result, before the case flag is applied
Armv4T_returned(d, v) == IF d = "None" THEN PyStr(UNKNOWN) ELSE Armv4T_call(d, v)

\* result.lower() if lowerCaseOutput else result
Armv4T_case(x, lower) ==
    IF x.kind = "raise" THEN x ELSE IF lower THEN PyLower(x) ELSE x

\* Armv4TDisassembler.disassemble
Armv4T_disassemble(v, lower) ==
    Armv4T_case(Armv4T_returned(Armv4T_get_decoder(v), v), lower)

---------------------------------------------------------------------------
(* The calls: a word is handed to one of the two disassemblers *)

\* the values a sampled 4-bit register field takes
Nibbles == (0..MaxNibbleLow) \cup {15}

\* the condition AL (always), bits 28-31 of the sampled words
AL == 14

\* Bits 20-27 and 4-7, which the pattern masks and the class selectors read,
\* take every value; the four register fields are sampled and the condition,
\* which no mask reads, is AL.
ArmSampled ==
    { W(AL * (2 ^ 12) + hi * (2 ^ 4) + rn, rd * (2 ^ 12) + rs * (2 ^ 8) + mid * (2 ^ 4) + rm) :
        hi \in 0..255, rn \in Nibbles, rd \in Nibbles, rs \in Nibbles,
        mid \in 0..15, rm \in Nibbles }

\* words named in the documentation: MOV r0, #0x1; B to self; BX r14;
\* LDR r1, [r15, #0x0]; AND r0, r0, r0; then a load multiple of r0 and r2, words
\* with the conditions NE and NV, and a value wider than 32 bits
ArmFixtures ==
    {W(\hE3A0, \h0001), W(\hEAFF, \hFFFE), W(\h012F, \hFF1E), W(\hE59F, \h1000),
     W(\h0000, \h0000), W(\hE890, \h0005), W(\h1A00, \h0002), W(\hFB00, \h0001),
     W(\h1E3A0, \h0001)}

ArmInputs == ArmSampled \cup ArmFixtures

\* every 16-bit word
ThumbInputs == 0..(2 ^ 16 - 1)

Pending == [kind |-> "pending"]

Init ==
    /\ pc = "called"
    /\ \/ isa = "arm" /\ value \in {RawArmInstruction(x) : x \in ArmInputs}
       \/ isa = "thumb" /\ value \in {RawThumbInstruction(x) : x \in ThumbInputs}
    /\ lowerCaseOutput = FALSE
    /\ decoder = "unset"
    /\ invoked = <<>>
    /\ returned = Pending
    /\ result = Pending

\* Armv4TDisassembler.disassemble(instr, lowerCaseOutput)
ArmDisassemble ==
    /\ pc = "called"
    /\ isa = "arm"
    /\ \E lower \in BOOLEAN :
          /\ lowerCaseOutput' = lower
          /\ decoder' = Armv4T_get_decoder(value)
          /\ invoked' = Armv4T_invoked(decoder')
          /\ returned' = Armv4T_returned(decoder', value)
          /\ result' = Armv4T_case(returned', lower)
    /\ pc' = "returned"
    /\ UNCHANGED <<isa, value>>

\* Thumb1Disassembler.disassemble(instr)
ThumbDisassemble ==
    /\ pc = "called"
    /\ isa = "thumb"
    /\ decoder' = Thumb1_get_decoder(value)
    /\ invoked' = Thumb1_invoked(decoder')
    /\ returned' = Thumb1_returned(decoder', value)
    /\ result' = OrUnknown(returned')
    /\ pc' = "returned"
    /\ UNCHANGED <<isa, value, lowerCaseOutput>>

Next == ArmDisassemble \/ ThumbDisassemble

Spec == Init /\ [][Next]_vars

TypeOK ==
    /\ pc \in {"called", "returned"}
    /\ isa \in {"arm", "thumb"}
    /\ lowerCaseOutput \in BOOLEAN
    /\ result.kind \in {"pending", "str", "None", "raise"}

---------------------------------------------------------------------------
(* What the claims are measured against: text taken apart again, and the   *)
(* values the documentation gives, computed without the decoders.          *)

IsPrefix(p, s) == Len(p) <= Len(s) /\ SubSeq(s, 1, Len(p)) = p

HasInfix(p, s) == \E i \in 1..(Len(s) - Len(p) + 1) : SubSeq(s, i, i + Len(p) - 1) = p

IsHexDigit(c) == \E d \in 1..16 : Digits[d] = c

HexValue(c) == (CHOOSE d \in 1..16 : Digits[d] = c) - 1

RECURSIVE ParseHex(_)
\* the number a string of at most four hexadecimal digits denotes
ParseHex(s) ==
    IF s = <<>> THEN 0
    ELSE 16 * ParseHex(SubSeq(s, 1, Len(s) - 1)) + HexValue(s[Len(s)])

\* the 32-bit quantity a string of one to eight hexadecimal digits denotes
ParseHexW(s) ==
    IF Len(s) <= 4 THEN <<0, ParseHex(s)>>
    ELSE <<ParseHex(SubSeq(s, 1, Len(s) - 4)), ParseHex(SubSeq(s, Len(s) - 3, Len(s)))>>

\* text is pre followed by the hexadecimal digits of target and nothing else
PrintsTarget(text, pre, target) ==
    /\ IsPrefix(pre, text)
    /\ LET d == SubSeq(text, Len(pre) + 1, Len(text))
       IN  /\ Len(d) \in 1..8
           /\ \A i \in 1..Len(d) : IsHexDigit(d[i])
           /\ ParseHexW(d) = target

\* sign extension of an n-bit value
SignExtend(x, n) == IF x >= 2 ^ (n - 1) THEN x - 2 ^ n ELSE x

\* t mod 2^32 as <<high, low>>, for -2^31 < t < 2^31
Mod32(t) ==
    IF t >= 0 THEN <<t \div 65536, t % 65536>>
    ELSE <<65535 - ((-t - 1) \div 65536), 65535 - ((-t - 1) % 65536)>>

InRange32(w) == w[1] \in 0..65535 /\ w[2] \in 0..65535

\* the suffix of each condition 0..15: the mnemonic, and nothing for AL
ConditionSuffix ==
    <<<<"E", "Q">>, <<"N", "E">>, <<"C", "S">>, <<"C", "C">>, <<"M", "I">>, <<"P", "L">>, <<"V", "S">>, <<"V", "C">>,
      <<"H", "I">>, <<"L", "S">>, <<"G", "E">>, <<"L", "T">>, <<"G", "T">>, <<"L", "E">>, <<>>, <<"N", "V">>>>

RECURSIVE Ascending(_)
\* r<i> for the members i of S, smallest first
Ascending(S) ==
    IF S = {} THEN <<>>
    ELSE LET m == CHOOSE x \in S : \A y \in S : x <= y
         IN  <<Reg(m)>> \o Ascending(S \ {m})

ArmCall == pc = "returned" /\ isa = "arm"

ThumbCall == pc = "returned" /\ isa = "thumb"

---------------------------------------------------------------------------
(* C1 *)

\* C1: whenever the ARM handler get_decoder selected rejects the word (gives
\* no text), disassemble returns the string UNKNOWN, as it does when no
\* pattern matches (lower-cased when the case flag is set).
C1_RejectionGivesUnknown ==
    (ArmCall /\ decoder # "None" /\ returned = PyNone)
        => (result.kind = "str" /\ result.text \in {UNKNOWN, Lower(UNKNOWN)})

---------------------------------------------------------------------------
(* C2 *)

\* C2: for every ARM word and either value of lowerCaseOutput, disassemble
\* returns a string: it raises no exception and returns no other value.
C2_ArmTotality == ArmCall => result.kind = "str"

---------------------------------------------------------------------------
(* C3 *)

\* C3: for every 16-bit word the Thumb disassemble returns a string; it is
\* UNKNOWN exactly when no entry matches or the selected handler rejects, and
\* the handler's text otherwise; no handler raises, and shift-by-immediate is
\* never invoked with bits 11-12 = 3.
C3_ThumbTotality ==
    ThumbCall =>
        /\ result.kind = "str"
        /\ returned.kind \in {"str", "None"}
        /\ (result = PyStr(UNKNOWN)) <=> (decoder = "None" \/ returned = PyNone)
        /\ (decoder # "None" /\ returned # PyNone) => result = returned
        /\ ("disassemble_shift_by_imm" \in {invoked[i] : i \in 1..Len(invoked)})
               => get_bits(value, 11, 12) # 3

\* a special-data-processing word whose BX sub-case rejects: UNKNOWN comes out
C3_Witness ==
    /\ ThumbCall
    /\ decoder = "disassemble_special_dp"
    /\ returned = PyNone
    /\ result = PyStr(UNKNOWN)

---------------------------------------------------------------------------
(* C4 *)

\* C4: get_decoder (ARM and Thumb) gives the handler of the first table entry,
\* in declaration order, with word & mask == expected, and none when no entry
\* matches; disassemble invokes that handler and no other, also after a
\* rejection; every ARM word with (word & 0x0FFFFFF0) == 0x012FFF10, which the
\* data-processing entry matches too, goes to the branch-exchange handler.
C4_FirstMatchWins ==
    pc = "returned" =>
        LET P == IF isa = "arm" THEN Armv4T_PATTERNS ELSE Thumb1_PATTERNS
            M(i) == W_And(value, P[i][1]) = P[i][2]
        IN  /\ (decoder = "None") <=> (\A i \in 1..Len(P) : ~M(i))
            /\ decoder # "None" =>
                   \E i \in 1..Len(P) :
                       /\ M(i)
                       /\ \A j \in 1..(i - 1) : ~M(j)
                       /\ P[i][3] = decoder
            /\ invoked = IF decoder = "None" THEN <<>> ELSE <<decoder>>
            /\ (isa = "arm" /\ W_And(value, W(\h0FFF, \hFFF0)) = W(\h012F, \hFF10))
                   => (M(Len(P)) /\ decoder = "disassemble_branch_exchange")

\* a branch-exchange word, which the data-processing entry matches as well
C4_Witness ==
    /\ ArmCall
    /\ W_And(value, W(\h0FFF, \hFFF0)) = W(\h012F, \hFF10)
    /\ W_And(value, Armv4T_PATTERNS[14][1]) = Armv4T_PATTERNS[14][2]
    /\ decoder = "disassemble_branch_exchange"
    /\ invoked = <<"disassemble_branch_exchange">>

---------------------------------------------------------------------------
(* C5 *)

\* C5: for every ARM word get_cond returns the entry of the 16-entry condition
\* table indexed by bits 28-31, the empty suffix for AL, and NV for 15.
C5_GetCond ==
    (ArmCall /\ decoder # "None")
        => Armv4T_get_cond(value) = PyStr(ConditionSuffix[get_bits(value, 28, 31) + 1])

---------------------------------------------------------------------------
(* C6 *)

\* (signext26(bits[23:0] << 2) + 8) mod 2^32
C6_Target(v) == Mod32(SignExtend(get_bits(v, 0, 23) * 4, 26) + 8)

\* C6: every ARM word with bits 27-25 = 101 prints B, or BL when bit 24 is set,
\* then the condition, then the target (signext26(bits[23:0] << 2) + 8) mod
\* 2^32; 0xEAFFFFFE decodes to 'B #0x0'.
C6_ArmBranchTarget ==
    (ArmCall /\ get_bits(value, 25, 27) = 5 /\ ~lowerCaseOutput) =>
        /\ result.kind = "str"
        /\ PrintsTarget(result.text,
                        (IF get_bit(value, 24) = 1 THEN <<"B", "L">> ELSE <<"B">>)
                            \o ConditionSuffix[get_bits(value, 28, 31) + 1] \o <<" ", "#", "0", "x">>,
                        C6_Target(value))
        /\ value = W(\hEAFF, \hFFFE) => result = PyStr(<<"B", " ", "#", "0", "x", "0">>)

---------------------------------------------------------------------------
(* C7 *)

\* (signext9(bits[7:0] << 1) + 4) mod 2^32
C7_ConditionalTarget(v) == Mod32(SignExtend(get_bits(v, 0, 7) * 2, 9) + 4)

\* (signext12(bits[10:0] << 1) + 4) mod 2^32
C7_UnconditionalTarget(v) == Mod32(SignExtend(get_bits(v, 0, 10) * 2, 12) + 4)

\* C7: a Thumb conditional branch prints B, the condition of bits 8-11 (nothing
\* for AL) and the target (signext9(bits[7:0] << 1) + 4) mod 2^32; an
\* unconditional branch (bits 15-11 = 11100) prints the target
\* (signext12(bits[10:0] << 1) + 4) mod 2^32; the target is within 0..2^32-1.
C7_ThumbBranchTargets ==
    /\ (ThumbCall /\ decoder = "disassemble_conditional_branch") =>
           /\ result.kind = "str"
           /\ PrintsTarget(result.text,
                           <<"B">> \o ConditionSuffix[get_bits(value, 8, 11) + 1] \o <<" ", "#", "0", "x">>,
                           C7_ConditionalTarget(value))
           /\ InRange32(Thumb1_conditional_branch_target(value))
    /\ (ThumbCall /\ get_bits(value, 11, 15) = 28) =>
           /\ decoder = "disassemble_unconditional_branch"
           /\ result.kind = "str"
           /\ PrintsTarget(result.text, <<"B", " ", "0", "x">>, C7_UnconditionalTarget(value))
           /\ InRange32(Thumb1_unconditional_branch_target(value))

\* BEQ to itself: offset -4 and the bias of 4, with the sign extension at work
C7_Witness ==
    /\ ThumbCall
    /\ value = W(0, \hD0FE)
    /\ decoder = "disassemble_conditional_branch"
    /\ result = PyStr(<<"B", "E", "Q", " ", "#", "0", "x", "0">>)

---------------------------------------------------------------------------
(* C8 *)

\* C8: in the register form of Mode 1 (bit 25 = 0) with a register-specified
\* shift amount (bit 4 = 1) the formatter rejects exactly when bit 7 is set and
\* otherwise gives 'r<Rm>, <shift> r<Rs>' for every Rs, 0 included; the bare
\* register and the RRX form come only from the immediate-shift form (bit 4 = 0)
\* with a shift amount of 0.
C8_Mode1RegisterShift ==
    (ArmCall /\ decoder = "disassemble_data_processing" /\ get_bit(value, 25) = 0) =>
        LET op2 == Armv4T_format_addressing_mode1(value)
            rm == Reg(get_bits(value, 0, 3))
            rs == Reg(get_bits(value, 8, 11))
            shift == SHIFT_NAMES[get_bits(value, 5, 6) + 1]
        IN  /\ get_bit(value, 4) = 1 =>
                   /\ (op2 = PyNone) <=> (get_bit(value, 7) = 1)
                   /\ get_bit(value, 7) = 0
                          => op2 = PyStr(rm \o <<",", " ">> \o shift \o <<" ">> \o rs)
            /\ op2 \in {PyStr(rm), PyStr(rm \o <<",", " ", "R", "R", "X">>)}
                   => (get_bit(value, 4) = 0 /\ get_bits(value, 7, 11) = 0)

---------------------------------------------------------------------------
(* C9 *)

\* the letters f, s, x, c for the bits 3, 2, 1, 0 set in mask, in that order
C9_Fields(mask) ==
    LET letters == <<"f", "s", "x", "c">>
        pick(i) == IF (mask \div (2 ^ (4 - i))) % 2 = 1 THEN <<letters[i]>> ELSE <<>>
    IN  pick(1) \o pick(2) \o pick(3) \o pick(4)

\* C9: the MSR side of the status-register handler (bit 21 = 1) rejects exactly
\* when bits 12-15 are not 0xF or the field mask (bits 16-19) is zero; in every
\* other case, register form or immediate form with any immediate and rotate,
\* it does not reject, and the field suffix it builds is the letters f, s, x, c
\* selected by mask bits 3, 2, 1, 0 in that order.
C9_MsrRejection ==
    (ArmCall /\ decoder = "disassemble_move_from_or_to_status_reg"
        /\ get_bit(value, 21) = 1) =>
        LET mask == get_bits(value, 16, 19)
        IN  /\ (returned = PyNone) <=> (get_bits(value, 12, 15) # 15 \/ mask = 0)
            /\ returned # PyNone => Armv4T_msr_fields(mask) = C9_Fields(mask)

---------------------------------------------------------------------------
(* C10 *)

\* C10: the load/store-multiple handler rejects exactly when the register list
\* is empty, Rn is 15, or S and W are both set; otherwise its text starts with
\* LDM or STM and DA, IA, DB, IB for (P,U) = (0,0), (0,1), (1,0), (1,1), and
\* lists exactly the registers whose bit is set, in ascending order.
C10_LoadStoreMultiple ==
    (ArmCall /\ decoder = "disassemble_load_or_store_multiple") =>
        LET reg_list == get_bits(value, 0, 15)
            set == {i \in 0..15 : (reg_list \div (2 ^ i)) % 2 = 1}
            mode == <<<<"D", "A">>, <<"I", "A">>, <<"D", "B">>, <<"I", "B">>>>
                        [2 * get_bit(value, 24) + get_bit(value, 23) + 1]
        IN  /\ (returned = PyNone)
                   <=> \/ reg_list = 0
                       \/ get_bits(value, 16, 19) = 15
                       \/ (get_bit(value, 22) = 1 /\ get_bit(value, 21) = 1)
            /\ returned # PyNone =>
                   /\ returned.kind = "str"
                   /\ IsPrefix((IF get_bit(value, 20) = 1 THEN <<"L", "D", "M">> ELSE <<"S", "T", "M">>) \o mode,
                               returned.text)
                   /\ HasInfix(<<"{">> \o Join(CommaSpace, Ascending(set)) \o <<"}">>,
                               returned.text)

---------------------------------------------------------------------------
(* C11 *)

\* C11: the ARM load/store halfword-or-signed-byte handler rejects every word
\* with S = H = 0, every store whose (S,H) is not (0,1), and every word that
\* Mode 3 rejects; Mode 3 rejects, in the immediate and in the register form,
\* every word with P = 0 and W = 1; the immediate Mode 3 prints is
\* (bits[11:8] << 4) | bits[3:0].
C11_HalfwordRejection ==
    (ArmCall /\ decoder = "disassemble_load_or_store_halfword_or_signed_byte") =>
        LET s == get_bit(value, 6)
            h == get_bit(value, 5)
            mode == Armv4T_format_addressing_mode3(value)
            imm == get_bits(value, 8, 11) * 16 + get_bits(value, 0, 3)
        IN  /\ (s = 0 /\ h = 0) => returned = PyNone
            /\ (get_bit(value, 20) = 0 /\ <<s, h>> # <<0, 1>>) => returned = PyNone
            /\ mode = PyNone => returned = PyNone
            /\ (get_bit(value, 24) = 0 /\ get_bit(value, 21) = 1) => mode = PyNone
            /\ (get_bit(value, 22) = 1 /\ mode # PyNone) =>
                   /\ mode.kind = "str"
                   /\ \E i \in 1..(Len(mode.text) - 1) :
                          /\ SubSeq(mode.text, i, i + 1) = <<"0", "x">>
                          /\ LET rest == SubSeq(mode.text, i + 2, Len(mode.text))
                                 digits == IF rest # <<>> /\ rest[Len(rest)] = "!"
                                           THEN SubSeq(rest, 1, Len(rest) - 2)
                                           ELSE IF rest # <<>> /\ rest[Len(rest)] = "]"
                                           THEN SubSeq(rest, 1, Len(rest) - 1)
                                           ELSE rest
                             IN  digits # <<>> /\ (\A k \in 1..Len(digits) : IsHexDigit(digits[k]))
                                 /\ ParseHex(digits) = imm

\* an STRH (S,H) = (0,1) in the immediate form with a nonzero immediate, post-
\* indexed with write-back: only Mode 3 rejects it
C11_Witness ==
    /\ ArmCall
    /\ decoder = "disassemble_load_or_store_halfword_or_signed_byte"
    /\ invoked = <<"disassemble_load_or_store_halfword_or_signed_byte">>
    /\ get_bit(value, 6) = 0 /\ get_bit(value, 5) = 1
    /\ get_bit(value, 24) = 0 /\ get_bit(value, 21) = 1 /\ get_bit(value, 22) = 1
    /\ get_bits(value, 8, 11) = 15
    /\ returned = PyNone

---------------------------------------------------------------------------
(* C12 *)

\* C12: for every Thumb word with bits 15-10 = 010001 the special-data-
\* processing handler is selected; with bits 9-8 = 3 (BX) it rejects exactly
\* when h1 (bit 7) is set or bits 0-2 are nonzero, and otherwise prints BX and
\* register bits[5:3] + 8*h2; for ADD, CMP and MOV it prints registers
\* bits[2:0] + 8*h1 and bits[5:3] + 8*h2, every index within 0..15; 0x4770
\* gives 'BX r14'.
C12_SpecialDataProcessing ==
    (ThumbCall /\ get_bits(value, 10, 15) = 17) =>
        LET opcode == get_bits(value, 8, 9)
            h1 == get_bit(value, 7)
            h2 == get_bit(value, 6)
            first == get_bits(value, 0, 2) + 8 * h1
            second == get_bits(value, 3, 5) + 8 * h2
            mnem == <<<<"A", "D", "D">>, <<"C", "M", "P">>, <<"M", "O", "V">>>>
        IN  /\ decoder = "disassemble_special_dp"
            /\ first \in 0..15 /\ second \in 0..15
            /\ opcode = 3 =>
                   /\ (returned = PyNone) <=> (h1 = 1 \/ get_bits(value, 0, 2) # 0)
                   /\ returned # PyNone =>
                          returned = PyStr(<<"B", "X", " ", "r">> \o Dec(second)) /\ result = returned
                   /\ returned = PyNone => result = PyStr(UNKNOWN)
            /\ opcode # 3 =>
                   /\ returned = PyStr(mnem[opcode + 1] \o <<" ", "r">> \o Dec(first) \o <<",", " ", "r">> \o Dec(second))
                   /\ result = returned
            /\ value = W(0, \h4770) => result = PyStr(<<"B", "X", " ", "r", "1", "4">>)

\* the word 0x4770, whose h2 bit adds 8 to bits[5:3] = 6
C12_Witness ==
    /\ ThumbCall
    /\ value = W(0, \h4770)
    /\ invoked = <<"disassemble_special_dp">>
    /\ result = PyStr(<<"B", "X", " ", "r", "1", "4">>)

---------------------------------------------------------------------------
(* C13 *)

\* C13: whenever the ARM dispatcher selects the data-processing handler for a
\* word whose opcode (bits 21-24) is TST, TEQ, CMP or CMN (8..11), bit 20 (S)
\* of the word is 1; where the handler does not reject, those four print the
\* mnemonic, the condition, Rn and the operand, with no S and no Rd; MOV and
\* MVN print Rd and the operand, without Rn; every other opcode prints Rd, Rn
\* and the operand; outside the compares S follows the mnemonic exactly when
\* bit 20 is set.
C13_DataProcessingSBit ==
    (ArmCall /\ decoder = "disassemble_data_processing") =>
        LET opcode == get_bits(value, 21, 24)
            mnem == <<<<"A", "N", "D">>, <<"E", "O", "R">>, <<"S", "U", "B">>, <<"R", "S", "B">>, <<"A", "D", "D">>, <<"A", "D", "C">>, <<"S", "B", "C">>, <<"R", "S", "C">>,
                      <<"T", "S", "T">>, <<"T", "E", "Q">>, <<"C", "M", "P">>, <<"C", "M", "N">>, <<"O", "R", "R">>, <<"M", "O", "V">>, <<"B", "I", "C">>, <<"M", "V", "N">>>>[opcode + 1]
            S == IF get_bit(value, 20) = 1 THEN <<"S">> ELSE <<>>
            cond == ConditionSuffix[get_bits(value, 28, 31) + 1]
            rn == Reg(get_bits(value, 16, 19))
            rd == Reg(get_bits(value, 12, 15))
            head == IF opcode \in 8..11 THEN mnem \o cond \o <<" ">> \o rn \o CommaSpace
                    ELSE IF opcode \in {13, 15} THEN mnem \o S \o cond \o <<" ">> \o rd \o CommaSpace
                    ELSE mnem \o S \o cond \o <<" ">> \o rd \o CommaSpace \o rn \o CommaSpace
        IN  /\ opcode \in 8..11 => get_bit(value, 20) = 1
            /\ returned # PyNone =>
                   /\ returned.kind = "str"
                   /\ IsPrefix(head, returned.text)
                   /\ Armv4T_format_addressing_mode1(value).kind = "str"
                   /\ returned.text = head \o Armv4T_format_addressing_mode1(value).text

---------------------------------------------------------------------------
(* C14 *)

\* ARM words to look for first matches among: the expected value of each table
\* entry, alone and with bit 5 (H) set
C14_ArmWords ==
    {W_Or(Armv4T_PATTERNS[i][2], e) : i \in 1..Len(Armv4T_PATTERNS), e \in {W(0, 0), W(0, \h0020)}}

\* C14: every entry of the ARM table and of the Thumb table is the first match
\* of at least one word, so no handler is shadowed by the entries before it;
\* in particular some Thumb word with bits 15-8 = 0xDF is dispatched to the
\* software-interrupt handler and not to the conditional-branch handler.
\* Stated of the two tables as they stand before a call.
C14_EveryEntryReachable ==
    pc = "called" =>
        /\ \A i \in 1..Len(Armv4T_PATTERNS) :
               \E w \in C14_ArmWords : FirstMatch(Armv4T_PATTERNS, RawArmInstruction(w), 1) = i
        /\ \E x \in 0..255 :
               Thumb1_get_decoder(RawThumbInstruction(\hDF00 + x)) = "disassemble_software_interrupt"
        /\ \A i \in 1..Len(Thumb1_PATTERNS) :
               \E x \in ThumbInputs : FirstMatch(Thumb1_PATTERNS, RawThumbInstruction(x), 1) = i

---------------------------------------------------------------------------
(* C15 *)

\* C15: every ARM word with bits 27-25 = 000, bit 7 = 1, bit 4 = 1 and (S,H) =
\* (bits 6,5) other than (0,0) is dispatched to the load/store halfword-or-
\* signed-byte handler, whatever P, U, I, W and L are; in particular an STRH
\* with P = 1 and U = 0 does not go to the move-status-register handler and,
\* its addressing mode being one Mode 3 accepts, is not rejected.
C15_HalfwordDispatch ==
    (/\ ArmCall
     /\ get_bits(value, 25, 27) = 0
     /\ get_bit(value, 7) = 1
     /\ get_bit(value, 4) = 1
     /\ get_bits(value, 5, 6) # 0) =>
        /\ decoder = "disassemble_load_or_store_halfword_or_signed_byte"
        /\ invoked = <<"disassemble_load_or_store_halfword_or_signed_byte">>
        /\ (/\ get_bit(value, 20) = 0
            /\ get_bits(value, 5, 6) = 1
            /\ get_bit(value, 24) = 1
            /\ get_bit(value, 23) = 0
            /\ Armv4T_format_addressing_mode3(value) # PyNone) =>
               /\ decoder # "disassemble_move_from_or_to_status_reg"
               /\ returned # PyNone

---------------------------------------------------------------------------
(* C16 *)

\* the entries of the ARM table whose mask reads nothing but bits 27-24 and
\* bit 4: whether one of them matches depends on those five bits alone
C16_CoarseEntries ==
    {i \in 1..Len(Armv4T_PATTERNS) :
        W_And(Armv4T_PATTERNS[i][1], W(\h0F00, \h0010)) = Armv4T_PATTERNS[i][1]}

\* C16: the ARM table is exhaustive: every 32-bit word matches at least one
\* entry, get_decoder never comes back without a handler, and an ARM decode
\* that yields no mnemonic is one whose selected handler rejected; the Thumb
\* table is not: the 16-bit words without a match are exactly those with bits
\* 15-11 in {11101, 11110, 11111} and those with bits 15-12 = 1011 that match
\* neither the adjust-stack-pointer nor the push/pop entry.
C16_TableExhaustive ==
    /\ ArmCall =>
           /\ \A top \in 0..15, b \in 0..1 :
                  \E i \in C16_CoarseEntries :
                      W_And(W(top * 256, b * 16), Armv4T_PATTERNS[i][1]) = Armv4T_PATTERNS[i][2]
           /\ \E i \in 1..Len(Armv4T_PATTERNS) :
                  W_And(value, Armv4T_PATTERNS[i][1]) = Armv4T_PATTERNS[i][2]
           /\ decoder # "None"
           /\ invoked = <<decoder>>
           /\ (result.kind # "str" \/ result = PyStr(UNKNOWN)) => returned = PyNone
    /\ ThumbCall =>
           LET M(i) == W_And(value, Thumb1_PATTERNS[i][1]) = Thumb1_PATTERNS[i][2]
           IN  /\ (decoder = "None") <=>
                      \/ get_bits(value, 11, 15) \in {29, 30, 31}
                      \/ (get_bits(value, 12, 15) = 11 /\ ~M(12) /\ ~M(13))
               /\ Thumb1_PATTERNS[12][3] = "disassemble_adjust_sp"
               /\ Thumb1_PATTERNS[13][3] = "disassemble_push_or_pop_reg_list"

=============================================================================
